---- MODULE Spec2Model ----
(***************************************************************************)
(* Model of the image import pipeline of imagep (images/importtools.py):    *)
(* arrays_from_folder and the helpers it calls (_order_imgpaths,            *)
(* _get_sortkey, _split_fname, _imgnames_from_imgpaths,                     *)
(* _function_from_format), and array_from_path.                             *)
(*                                                                         *)
(* Python str values are sequences of one-character strings, so that       *)
(* str.startswith, the substring test `in`, re.split, Path.stem,            *)
(* Path.suffix, glob matching and the ordering of str are computed and not *)
(* assumed.  A raised exception is a string naming it; "None" is no         *)
(* exception.                                                              *)
(***************************************************************************)
EXTENDS Integers, Sequences, FiniteSets

VARIABLES
    listing,      \* the folder's files, in the order folder.glob delivers them
    pc,           \* position inside the running call ("idle": no call)
    op,           \* the entry point that is running
    args,         \* the arguments of the running call
    fname_extension, \* local of arrays_from_folder (reassigned at line 104)
    pattern,      \* local of arrays_from_folder (line 107)
    globbed,      \* list(folder.glob(pattern)), line 110
    globs,        \* number of folder.glob calls made by the running call
    imgpaths,     \* _imgpaths after _order_imgpaths, line 111
    import_func,  \* line 119
    imgs,         \* _imgs: decoded arrays (line 122), then mdarrays (line 134)
    imgnames,     \* _imgnames, lines 128-131
    raised,       \* the exception the running call ended with, or "None"
    txt,          \* a running call of _txtfile_to_array
    fl,           \* a running call of arrays_from_folderlist, and the folders
    stk,          \* a Stack, the arrays it refers to and its running method
    ann,          \* the annotation cache file, the viewer and update_annotations
    zs            \* a ZStack under construction and its fill_z

\* the state of arrays_from_folder, _function_from_format and array_from_path
importvars == <<listing, pc, op, args, fname_extension, pattern, globbed,
                globs, imgpaths, import_func, imgs, imgnames, raised>>

\* the state of the other entry points
others == <<txt, fl, stk, ann, zs>>

vars == <<importvars, others>>

\* the value of txt, fl, stk, ann or zs while that part is not in use
NotInUse == [pc |-> "unused"]

-----------------------------------------------------------------------------
(* Bounds of the model *)

\* largest number of files in the folder
MaxFiles == 3

-----------------------------------------------------------------------------
(* Python str *)

\* ord(c) for the characters that occur in the model
Ord(c) ==
    CASE c = " " -> 32 [] c = "*" -> 42 [] c = "." -> 46
      [] c = "0" -> 48 [] c = "1" -> 49 [] c = "2" -> 50
      [] c = "_" -> 95 [] c = "a" -> 97 [] c = "b" -> 98 [] c = "c" -> 99
      [] c = "f" -> 102 [] c = "g" -> 103 [] c = "i" -> 105
      [] c = "n" -> 110 [] c = "p" -> 112 [] c = "t" -> 116 [] c = "x" -> 120

\* s < t for two str: lexicographic by code point, a proper prefix first
RECURSIVE StrLess(_, _)
StrLess(s, t) ==
    IF t = <<>> THEN FALSE
    ELSE IF s = <<>> THEN TRUE
    ELSE IF Head(s) # Head(t) THEN Ord(Head(s)) < Ord(Head(t))
    ELSE StrLess(Tail(s), Tail(t))

\* s.startswith(prefix)
StartsWith(s, prefix) ==
    /\ Len(prefix) <= Len(s)
    /\ SubSeq(s, 1, Len(prefix)) = prefix

\* `s in t` for two str: s is a substring of t
IsSubstring(s, t) ==
    \E i \in 0..(Len(t) - Len(s)) : SubSeq(t, i + 1, i + Len(s)) = s

\* s.rfind("."), 0-based, -1 when there is none
RECURSIVE RFindDot(_)
RFindDot(s) ==
    IF s = <<>> THEN -1
    ELSE IF s[Len(s)] = "." THEN Len(s) - 1
    ELSE RFindDot(SubSeq(s, 1, Len(s) - 1))

\* pathlib PurePath.suffix of a file name
Suffix(name) ==
    LET i == RFindDot(name)
    IN  IF 0 < i /\ i < Len(name) - 1
        THEN SubSeq(name, i + 1, Len(name))
        ELSE <<>>

\* pathlib PurePath.stem of a file name
Stem(name) ==
    LET i == RFindDot(name)
    IN  IF 0 < i /\ i < Len(name) - 1
        THEN SubSeq(name, 1, i)
        ELSE name

\* fnmatch of a whole name against a pattern of literals and "*"
RECURSIVE GlobMatch(_, _)
GlobMatch(pat, name) ==
    IF pat = <<>> THEN name = <<>>
    ELSE IF Head(pat) = "*"
         THEN GlobMatch(Tail(pat), name)
              \/ (name # <<>> /\ GlobMatch(pat, Tail(name)))
         ELSE /\ name # <<>>
              /\ Head(name) = Head(pat)
              /\ GlobMatch(Tail(pat), Tail(name))

\* s[::-1]
Reverse(s) == [i \in 1..Len(s) |-> s[Len(s) + 1 - i]]

-----------------------------------------------------------------------------
(* Filename tokens and sort keys *)

\* index of the first " " or "_" in s (1-based), 0 when there is none
RECURSIVE FirstDelim(_, _)
FirstDelim(s, i) ==
    IF i > Len(s) THEN 0
    ELSE IF s[i] \in {" ", "_"} THEN i
    ELSE FirstDelim(s, i + 1)

\* re.split(" |_", s): the pieces between delimiters, empty pieces kept
RECURSIVE ReSplit(_)
ReSplit(s) ==
    LET i == FirstDelim(s, 1)
    IN  IF i = 0 THEN <<s>>
        ELSE <<SubSeq(s, 1, i - 1)>> \o ReSplit(SubSeq(s, i + 1, Len(s)))

_split_fname(path) == ReSplit(Stem(path))

\* imgname_position: <<>> is Python's None, <<k>> the int k
None == <<>>

\* the exception list.__getitem__ raises for index pos on a list of length n
GetitemRaises(n, pos) ==
    IF pos = None THEN "TypeError"
    ELSE IF pos[1] >= n \/ pos[1] < -n THEN "IndexError"
    ELSE "None"

\* lst[pos] for an int pos in range (negative counts from the end)
Getitem(lst, pos) ==
    IF pos[1] >= 0 THEN lst[pos[1] + 1] ELSE lst[Len(lst) + pos[1] + 1]

\* what the lambda of _get_sortkey raises on path, and what it returns
SortkeyRaises(imgkey_position, path) ==
    GetitemRaises(Len(_split_fname(path)), imgkey_position)

_get_sortkey(imgkey_position, path) ==
    Getitem(_split_fname(path), imgkey_position)

\* the exception of the first element of paths whose key raises, or "None"
RECURSIVE FirstKeyRaises(_, _)
FirstKeyRaises(paths, pos) ==
    IF paths = <<>> THEN "None"
    ELSE IF SortkeyRaises(pos, Head(paths)) # "None"
         THEN SortkeyRaises(pos, Head(paths))
         ELSE FirstKeyRaises(Tail(paths), pos)

\* a numeric-looking order of keys: a shorter key first
KeyLessByLength(a, b) ==
    Len(a) < Len(b) \/ (Len(a) = Len(b) /\ StrLess(a, b))

\* the comparison sorted() makes between two keys: str.__lt__
KeyLess(a, b) == StrLess(a, b)

\* insert x before the first element whose key is not smaller: unstable
RECURSIVE InsertBeforeEqual(_, _, _)
InsertBeforeEqual(lst, x, pos) ==
    IF lst = <<>> THEN <<x>>
    ELSE IF ~KeyLess(_get_sortkey(pos, Head(lst)), _get_sortkey(pos, x))
         THEN <<x>> \o lst
         ELSE <<Head(lst)>> \o InsertBeforeEqual(Tail(lst), x, pos)

\* insert x before the first element whose key is greater: after its equals
RECURSIVE InsertSorted(_, _, _)
InsertSorted(lst, x, pos) ==
    IF lst = <<>> THEN <<x>>
    ELSE IF KeyLess(_get_sortkey(pos, x), _get_sortkey(pos, Head(lst)))
         THEN <<x>> \o lst
         ELSE <<Head(lst)>> \o InsertSorted(Tail(lst), x, pos)

\* sorted(paths, key=_get_sortkey(pos)) when no key raises: a stable sort
RECURSIVE Sorted(_, _)
Sorted(paths, pos) ==
    IF paths = <<>> THEN <<>>
    ELSE InsertSorted(Sorted(SubSeq(paths, 1, Len(paths) - 1), pos),
                      paths[Len(paths)], pos)

\* _order_imgpaths with the reversal made before the sort
OrderInvertFirst(paths, sort, imgname_position, invertorder) ==
    LET inv == IF invertorder THEN Reverse(paths) ELSE paths
        exc == IF sort THEN FirstKeyRaises(inv, imgname_position) ELSE "None"
    IN  [raised |-> exc,
         value  |-> IF exc # "None" THEN <<>>
                    ELSE IF sort THEN Sorted(inv, imgname_position) ELSE inv]

\* _order_imgpaths with the sort left out
OrderUnsorted(paths, sort, imgname_position, invertorder) ==
    LET exc == IF sort THEN FirstKeyRaises(paths, imgname_position) ELSE "None"
    IN  [raised |-> exc,
         value  |-> IF exc # "None" THEN <<>>
                    ELSE IF invertorder THEN Reverse(paths) ELSE paths]

_order_imgpaths(paths, sort, imgname_position, invertorder) ==
    LET exc == IF sort THEN FirstKeyRaises(paths, imgname_position) ELSE "None"
        srt == IF sort /\ exc = "None"
               THEN Sorted(paths, imgname_position) ELSE paths
    IN  [raised |-> exc,
         value  |-> IF exc # "None" THEN <<>>
                    ELSE IF invertorder THEN Reverse(srt) ELSE srt]

\* _imgnames_from_imgpaths: the key of every path, or the first exception
_imgnames_from_imgpaths(paths, imgname_position) ==
    LET exc == FirstKeyRaises(paths, imgname_position)
    IN  [raised |-> exc,
         value  |-> IF exc # "None" THEN <<>>
                    ELSE [i \in 1..Len(paths) |->
                             _get_sortkey(imgname_position, paths[i])]]

-----------------------------------------------------------------------------
(* Decoders and the steps of arrays_from_folder *)

TXT == <<".", "t", "x", "t">>
TIF == <<".", "t", "i", "f">>

NotSupported == "ValueError: fname_extension not supported"
ArgsNotGiven == "ValueError: Either arguments must be given"

\* `fname_extension in (".tif")` is a substring test: (".tif") is a str
_function_from_format(ext) ==
    IF ext = TXT THEN [raised |-> "None", value |-> "_txtfile_to_array", named |-> <<>>]
    ELSE IF IsSubstring(ext, TIF) THEN [raised |-> "None", value |-> "_imgfile_to_array", named |-> <<>>]
    ELSE [raised |-> NotSupported, value |-> "None", named |-> ext]

_scan_extension(path) == Suffix(path)

\* the array import_func(path, ...) returns: the file's content as func decodes it
Decode(func, path) == [path |-> path, by |-> func]

\* line 96 with `or` for `and`
ArgsMissingEither(a) == a.fname_extension = <<>> \/ a.fname_pattern = <<>>

\* line 96: neither fname_extension nor fname_pattern is given
ArgsMissing(a) == a.fname_extension = <<>> /\ a.fname_pattern = <<>>

\* lines 103-104 without the normalisation
KeepExtension(ext) == ext

\* lines 103-104: make sure fname_extension starts with a dot
NormalizeExtension(ext) ==
    IF ~StartsWith(ext, <<".">>) THEN <<".">> \o ext ELSE ext

\* line 107
Pattern(fname_pattern, ext) ==
    IF fname_pattern # <<>> THEN fname_pattern ELSE <<"*">> \o ext

\* line 110: the files of the folder that match, in listing order
Glob(lst, pat) == SelectSeq(lst, LAMBDA name : GlobMatch(pat, name))

\* ut.shortenpath(folder): some string derived from the folder's path
shortenpath(folder) == <<"short", folder>>

\* mdarray(array=, name=, folder=): the array with its provenance
mdarray(array, name, folder) ==
    [array |-> array, name |-> name, folder |-> folder]

\* lines 128-131: the stems, or the tokens when a position is given
Names(paths, imgname_position) ==
    IF imgname_position # None
    THEN _imgnames_from_imgpaths(paths, imgname_position)
    ELSE [raised |-> "None",
          value  |-> [i \in 1..Len(paths) |-> Stem(paths[i])]]

\* lines 134-141: zip(_imgs, _imgnames) into mdarrays
Wrap(arrays, names, folder) ==
    LET n == IF Len(arrays) < Len(names) THEN Len(arrays) ELSE Len(names)
    IN  [i \in 1..n |-> mdarray(arrays[i], names[i], shortenpath(folder))]

\* line 143: print(..., _imgnames[0], _imgs[0].name)
PrintRaises(names, wrapped) ==
    IF names = <<>> \/ wrapped = <<>> THEN "IndexError" ELSE "None"

\* what a call of arrays_from_folder ends with
Outcome(exc, pat, func, globN, decoded, names, wrapped) ==
    [raised |-> exc, pattern |-> pat, import_func |-> func, globs |-> globN,
     decoded |-> decoded,
     imgnames |-> IF exc = "None" THEN names ELSE <<>>,
     imgs |-> IF exc = "None" THEN wrapped ELSE <<>>]

\* arrays_from_folder on a folder that lists lst, from its first line to its last
arrays_from_folder(lst, a) ==
    IF ArgsMissing(a)
    THEN Outcome(ArgsNotGiven, <<>>, "None", 0, <<>>, <<>>, <<>>)
    ELSE
    LET ext   == NormalizeExtension(a.fname_extension)
        pat   == Pattern(a.fname_pattern, ext)
        ord   == _order_imgpaths(Glob(lst, pat), a.sort, a.imgname_position,
                                 a.invertorder)
        f     == _function_from_format(ext)
        dec   == [i \in 1..Len(ord.value) |-> Decode(f.value, ord.value[i])]
        nm    == Names(ord.value, a.imgname_position)
        wr    == Wrap(dec, nm.value, a.folder)
    IN  IF ord.raised # "None"
        THEN Outcome(ord.raised, pat, "None", 1, <<>>, <<>>, <<>>)
        ELSE IF f.raised # "None"
        THEN Outcome(f.raised, pat, "None", 1, <<>>, <<>>, <<>>)
        ELSE IF nm.raised # "None"
        THEN Outcome(nm.raised, pat, f.value, 1, dec, <<>>, <<>>)
        ELSE Outcome(PrintRaises(nm.value, wr), pat, f.value, 1, dec,
                     nm.value, wr)

-----------------------------------------------------------------------------
(* Inputs *)

\* the file names a folder may hold
FileNames ==
    { <<"a", "_", "1", "0", ".", "t", "x", "t">>,
      <<"a", "_", "2", ".", "t", "x", "t">>,
      <<"b", "_", "2", ".", "t", "x", "t">>,
      <<"a", " ", "2", ".", "t", "i", "f">>,
      <<"c", ".", "t", "i", "f">> }

\* the directory listings: up to MaxFiles distinct file names in any order
Listings ==
    { s \in UNION { [1..n -> FileNames] : n \in 0..MaxFiles } :
        \A i, j \in DOMAIN s : i # j => s[i] # s[j] }

Folders == {"data/stack"}

FnamePatterns == { <<>>, <<"*">>, <<"*", ".", "t", "x", "t">> }

FnameExtensions ==
    { <<>>, <<"t", "x", "t">>, TXT, TIF, <<".", "p", "n", "g">> }

ImgnamePositions == { None, <<0>>, <<1>>, <<-1>> }

\* the argument records of arrays_from_folder
FolderArgs ==
    [folder : Folders, fname_pattern : FnamePatterns,
     fname_extension : FnameExtensions, sort : BOOLEAN,
     imgname_position : ImgnamePositions, invertorder : BOOLEAN]

\* extension strings handed to _function_from_format directly
FormatInputs ==
    { <<>>, <<".">>, <<".", "t", "i">>, <<"t", "i", "f">>, TXT, TIF,
      <<".", "p", "n", "g">>, <<".", "t", "x", "t", "x">> }

\* paths handed to array_from_path
PathInputs ==
    FileNames \cup { <<"a", "_", "1">>, <<"x", ".", "p", "n", "g">> }

-----------------------------------------------------------------------------
(* The state machine *)

NoArgs == [folder |-> "none"]

\* the locals of a call before its first line has run
Fresh ==
    /\ fname_extension' = <<>>
    /\ pattern' = <<>>
    /\ globbed' = <<>>
    /\ globs' = 0
    /\ imgpaths' = <<>>
    /\ import_func' = "None"
    /\ imgs' = <<>>
    /\ imgnames' = <<>>
    /\ raised' = "None"

Init ==
    /\ listing \in Listings
    /\ pc = "idle"
    /\ op = "none"
    /\ args = NoArgs
    /\ fname_extension = <<>>
    /\ pattern = <<>>
    /\ globbed = <<>>
    /\ globs = 0
    /\ imgpaths = <<>>
    /\ import_func = "None"
    /\ imgs = <<>>
    /\ imgnames = <<>>
    /\ raised = "None"
    /\ txt = NotInUse /\ fl = NotInUse /\ stk = NotInUse
    /\ ann = NotInUse /\ zs = NotInUse

\* a caller invokes arrays_from_folder(folder, ...)
CallArraysFromFolder ==
    /\ UNCHANGED others
    /\ pc = "idle"
    /\ \E a \in FolderArgs :
          /\ args' = a
          /\ fname_extension' = a.fname_extension
    /\ op' = "arrays_from_folder"
    /\ pc' = "check"
    /\ pattern' = <<>> /\ globbed' = <<>> /\ globs' = 0 /\ imgpaths' = <<>>
    /\ import_func' = "None" /\ imgs' = <<>> /\ imgnames' = <<>>
    /\ raised' = "None"
    /\ UNCHANGED listing

\* lines 95-100
CheckArgs ==
    /\ UNCHANGED others
    /\ op = "arrays_from_folder" /\ pc = "check"
    /\ IF ArgsMissing(args)
       THEN raised' = ArgsNotGiven /\ pc' = "raised"
       ELSE raised' = raised /\ pc' = "normalize"
    /\ UNCHANGED <<listing, op, args, fname_extension, pattern, globbed, globs,
                   imgpaths, import_func, imgs, imgnames>>

\* lines 102-107
Normalize ==
    /\ UNCHANGED others
    /\ op = "arrays_from_folder" /\ pc = "normalize"
    /\ fname_extension' = NormalizeExtension(fname_extension)
    /\ pattern' = Pattern(args.fname_pattern, fname_extension')
    /\ pc' = "glob"
    /\ UNCHANGED <<listing, op, args, globbed, globs, imgpaths, import_func,
                   imgs, imgnames, raised>>

\* line 110
GlobFolder ==
    /\ UNCHANGED others
    /\ op = "arrays_from_folder" /\ pc = "glob"
    /\ globbed' = Glob(listing, pattern)
    /\ globs' = globs + 1
    /\ pc' = "order"
    /\ UNCHANGED <<listing, op, args, fname_extension, pattern, imgpaths,
                   import_func, imgs, imgnames, raised>>

\* lines 111-116
OrderPaths ==
    /\ UNCHANGED others
    /\ op = "arrays_from_folder" /\ pc = "order"
    /\ LET r == _order_imgpaths(globbed, args.sort, args.imgname_position,
                                args.invertorder)
       IN  /\ imgpaths' = r.value
           /\ raised' = r.raised
           /\ pc' = IF r.raised = "None" THEN "pick" ELSE "raised"
    /\ UNCHANGED <<listing, op, args, fname_extension, pattern, globbed, globs,
                   import_func, imgs, imgnames>>

\* line 119
PickImportFunc ==
    /\ UNCHANGED others
    /\ op = "arrays_from_folder" /\ pc = "pick"
    /\ LET f == _function_from_format(fname_extension)
       IN  /\ import_func' = f.value
           /\ raised' = f.raised
           /\ pc' = IF f.raised = "None" THEN "import" ELSE "raised"
    /\ UNCHANGED <<listing, op, args, fname_extension, pattern, globbed, globs,
                   imgpaths, imgs, imgnames>>

\* lines 122-124: one iteration of the list comprehension
ImportOne ==
    /\ UNCHANGED others
    /\ op = "arrays_from_folder" /\ pc = "import"
    /\ Len(imgs) < Len(imgpaths)
    /\ imgs' = Append(imgs, Decode(import_func, imgpaths[Len(imgs) + 1]))
    /\ UNCHANGED <<listing, pc, op, args, fname_extension, pattern, globbed,
                   globs, imgpaths, import_func, imgnames, raised>>

\* lines 125-131, once every path is imported
MakeNames ==
    /\ UNCHANGED others
    /\ op = "arrays_from_folder" /\ pc = "import"
    /\ Len(imgs) = Len(imgpaths)
    /\ LET nm == Names(imgpaths, args.imgname_position)
       IN  /\ imgnames' = nm.value
           /\ raised' = nm.raised
           /\ pc' = IF nm.raised = "None" THEN "wrap" ELSE "raised"
    /\ UNCHANGED <<listing, op, args, fname_extension, pattern, globbed, globs,
                   imgpaths, import_func, imgs>>

\* lines 133-141
AddMetadata ==
    /\ UNCHANGED others
    /\ op = "arrays_from_folder" /\ pc = "wrap"
    /\ imgs' = Wrap(imgs, imgnames, args.folder)
    /\ pc' = "print"
    /\ UNCHANGED <<listing, op, args, fname_extension, pattern, globbed, globs,
                   imgpaths, import_func, imgnames, raised>>

\* lines 143-145
PrintAndReturn ==
    /\ UNCHANGED others
    /\ op = "arrays_from_folder" /\ pc = "print"
    /\ raised' = PrintRaises(imgnames, imgs)
    /\ pc' = IF raised' = "None" THEN "done" ELSE "raised"
    /\ UNCHANGED <<listing, op, args, fname_extension, pattern, globbed, globs,
                   imgpaths, import_func, imgs, imgnames>>

\* a caller invokes _function_from_format(fname_extension)
CallFunctionFromFormat ==
    /\ UNCHANGED others
    /\ pc = "idle"
    /\ \E e \in FormatInputs :
          LET f == _function_from_format(e)
          IN  /\ args' = [fname_extension |-> e]
              /\ fname_extension' = e
              /\ import_func' = f.value
              /\ raised' = f.raised
              /\ pc' = IF f.raised = "None" THEN "done" ELSE "raised"
    /\ op' = "_function_from_format"
    /\ UNCHANGED <<listing, pattern, globbed, globs, imgpaths, imgs, imgnames>>

\* a caller invokes array_from_path(path): lines 188-199
CallArrayFromPath ==
    /\ UNCHANGED others
    /\ pc = "idle"
    /\ \E p \in PathInputs :
          LET f == _function_from_format(_scan_extension(p))
          IN  /\ args' = [path |-> p]
              /\ fname_extension' = _scan_extension(p)
              /\ import_func' = f.value
              /\ raised' = f.raised
              /\ imgs' = IF f.raised = "None" THEN <<Decode(f.value, p)>>
                         ELSE <<>>
              /\ pc' = IF f.raised = "None" THEN "done" ELSE "raised"
    /\ op' = "array_from_path"
    /\ UNCHANGED <<listing, pattern, globbed, globs, imgpaths, imgnames>>

\* the call has returned or raised; the caller goes on
Return ==
    /\ UNCHANGED others
    /\ pc \in {"done", "raised"}
    /\ pc' = "idle"
    /\ op' = "none"
    /\ args' = NoArgs
    /\ Fresh
    /\ UNCHANGED listing

Next ==
    \/ CallArraysFromFolder
    \/ CheckArgs
    \/ Normalize
    \/ GlobFolder
    \/ OrderPaths
    \/ PickImportFunc
    \/ ImportOne
    \/ MakeNames
    \/ AddMetadata
    \/ PrintAndReturn
    \/ CallFunctionFromFormat
    \/ CallArrayFromPath
    \/ Return

Spec == Init /\ [][Next]_vars

-----------------------------------------------------------------------------
(* Helpers of the properties *)

InFolderCall == op = "arrays_from_folder"

\* the positions at which _order_imgpaths has returned
AfterOrder == {"pick", "import", "wrap", "print", "done"}

Range(s) == { s[i] : i \in DOMAIN s }

IsPermutation(s, t) ==
    /\ Len(s) = Len(t)
    /\ \A e \in Range(s) \cup Range(t) :
          Cardinality({ i \in DOMAIN s : s[i] = e })
              = Cardinality({ i \in DOMAIN t : t[i] = e })

\* every order a sequence of distinct elements can be delivered in
ListingOrders(s) ==
    { t \in [1..Len(s) -> Range(s)] : \A i, j \in 1..Len(s) : i # j => t[i] # t[j] }

\* the index of element e in sequence s
IndexOf(s, e) == CHOOSE i \in DOMAIN s : s[i] = e

Token(path) == _get_sortkey(args.imgname_position, path)

\* the step-by-step run ends as arrays_from_folder(listing, args) says
StepsAgreeWithOutcome ==
    InFolderCall /\ pc \in {"done", "raised"} =>
        LET o == arrays_from_folder(listing, args)
        IN  /\ raised = o.raised
            /\ globs = o.globs
            /\ pc = "done" => /\ pattern = o.pattern
                              /\ import_func = o.import_func
                              /\ imgnames = o.imgnames
                              /\ imgs = o.imgs

-----------------------------------------------------------------------------
(* Properties *)

TiesKeepInputOrder ==
    \A i, j \in DOMAIN globbed :
        (i < j /\ Token(globbed[i]) = Token(globbed[j])) =>
            IndexOf(imgpaths, globbed[i]) < IndexOf(imgpaths, globbed[j])

\* two paths of the input whose tokens are equal swap their relative order
TiesReverseInputOrder ==
    \A i, j \in DOMAIN globbed :
        (i < j /\ Token(globbed[i]) = Token(globbed[j])) =>
            IndexOf(imgpaths, globbed[j]) < IndexOf(imgpaths, globbed[i])

\* C2 as claimed: with sort=True, for either value of invertorder, paths with
\* equal tokens appear in the result in the relative order of the input.
C2_TiesKeepOrderEitherInvert ==
    (InFolderCall /\ pc \in AfterOrder /\ args.sort) => TiesKeepInputOrder

\* C2 as amended: with sort=True, paths with equal tokens appear in the
\* relative order of the input when invertorder=False, and in the reverse of
\* it when invertorder=True.
C2_TiesFollowInvert ==
    (InFolderCall /\ pc \in AfterOrder /\ args.sort) =>
        IF args.invertorder THEN TiesReverseInputOrder ELSE TiesKeepInputOrder

\* C2 witness: a sorted, inverted result holding two paths with equal tokens.
C2_Witness ==
    /\ InFolderCall /\ pc = "pick" /\ args.sort /\ args.invertorder
    /\ \E i, j \in DOMAIN globbed :
          i < j /\ Token(globbed[i]) = Token(globbed[j])

\* C3: for every input and every value of sort, the result with
\* invertorder=True is the reverse of the result with invertorder=False on
\* the same input.
C3_InvertIsReverse ==
    (InFolderCall /\ pc \in AfterOrder) =>
        imgpaths = Reverse(_order_imgpaths(globbed, args.sort,
                                           args.imgname_position,
                                           ~args.invertorder).value)

\* C3 witness: an inverted, sorted result of three paths, two of them with
\* equal tokens.
C3_Witness ==
    /\ InFolderCall /\ pc = "pick" /\ args.sort /\ args.invertorder
    /\ Len(imgpaths) = 3
    /\ \E i, j \in DOMAIN imgpaths :
          i # j /\ Token(imgpaths[i]) = Token(imgpaths[j])
    /\ \E i, j \in DOMAIN imgpaths : Token(imgpaths[i]) # Token(imgpaths[j])

\* the result of the ordering step is the same for every listing order
SameForEveryListing ==
    \A q \in ListingOrders(listing) :
        _order_imgpaths(Glob(q, pattern), args.sort, args.imgname_position,
                        args.invertorder).value = imgpaths

\* C4 as claimed: with sort=True the ordered sequence is the same whatever
\* order the directory listing delivers the files in.
C4_SameWhateverListing ==
    (InFolderCall /\ pc \in AfterOrder /\ args.sort) => SameForEveryListing

\* no two matched files have the same token at imgname_position
TokensDistinct ==
    \A i, j \in DOMAIN globbed :
        i # j => Token(globbed[i]) # Token(globbed[j])

\* C4 as amended: with sort=True the ordered sequence is the same whatever
\* order the directory listing delivers the files in, provided no two matched
\* files have the same token at imgname_position.
C4_SameWhenTokensDistinct ==
    (InFolderCall /\ pc \in AfterOrder /\ args.sort /\ TokensDistinct) =>
        SameForEveryListing

\* C4 witness: a sorted result of three files with distinct tokens whose
\* listing is not in sorted order.
C4_Witness ==
    /\ InFolderCall /\ pc = "pick" /\ args.sort /\ TokensDistinct
    /\ Len(globbed) = 3
    /\ globbed # imgpaths /\ globbed # Reverse(imgpaths)

\* C5: arrays_from_folder derives the display names for every value of sort:
\* with an integer imgname_position, names[i] is the token at that position
\* of the i-th ordered path; with imgname_position None the call does not
\* fail over the missing position and names[i] is the stem of the i-th
\* ordered path.
C5_NamesFromTokenOrStem ==
    InFolderCall =>
        /\ (pc \in {"wrap", "print", "done"} /\ args.imgname_position # None) =>
              imgnames = [i \in DOMAIN imgpaths |-> Token(imgpaths[i])]
        /\ (pc \in {"wrap", "print", "done"} /\ args.imgname_position = None) =>
              imgnames = [i \in DOMAIN imgpaths |-> Stem(imgpaths[i])]
        /\ (pc = "raised" /\ args.imgname_position = None) =>
              raised # "TypeError"

\* C6: for any number n >= 0 of matched files, arrays_from_folder returns n
\* names and n slices in the order of _order_imgpaths, slice i being the
\* array decoded from the i-th ordered path with name = names[i] and
\* folder = the shortened folder path; an IndexError ends the call only
\* when a file name has no token at imgname_position, never on account of n.
C6_ReturnsNSlicesInOrder ==
    InFolderCall =>
        /\ pc = "done" =>
              /\ Len(imgnames) = Len(globbed)
              /\ Len(imgs) = Len(globbed)
              /\ \A i \in DOMAIN imgs :
                    imgs[i] = [array  |-> Decode(import_func, imgpaths[i]),
                               name   |-> imgnames[i],
                               folder |-> shortenpath(args.folder)]
        /\ (pc = "raised" /\ raised = "IndexError") =>
              \E path \in Range(globbed) :
                  SortkeyRaises(args.imgname_position, path) = "IndexError"

\* C7: arrays_from_folder raises its "Either arguments must be given" error
\* exactly when fname_pattern and fname_extension are both empty, and then
\* before any file is globbed or decoded.
C7_ArgsErrorBeforeGlob ==
    LET bothEmpty == args.fname_pattern = <<>> /\ args.fname_extension = <<>>
    IN  InFolderCall =>
            /\ raised = ArgsNotGiven =>
                  bothEmpty /\ globs = 0 /\ globbed = <<>> /\ imgs = <<>>
            /\ (bothEmpty /\ pc # "check") =>
                  pc = "raised" /\ raised = ArgsNotGiven
            /\ ~bothEmpty => raised # ArgsNotGiven

\* C7 witness: the call has raised the error over a folder that holds files,
\* none of which was globbed or decoded.
C7_Witness ==
    /\ InFolderCall /\ pc = "raised" /\ raised = ArgsNotGiven
    /\ Len(listing) = 2 /\ globs = 0 /\ imgs = <<>>

\* C8: a call with fname_extension="txt" uses the glob pattern and the decoder
\* of, and ends as (same exception, or same names and slices), the call with
\* fname_extension=".txt" on the same folder with the other arguments equal.
C8_ExtensionDotOptional ==
    (InFolderCall /\ args.fname_extension = <<"t", "x", "t">>) =>
        LET o == arrays_from_folder(listing,
                                    [args EXCEPT !.fname_extension = TXT])
        IN  /\ pc \in {"glob", "order", "pick", "import", "wrap", "print", "done"}
                  => pattern = o.pattern
            /\ pc \in {"import", "wrap", "print", "done"}
                  => import_func = o.import_func
            /\ pc \in {"done", "raised"} => raised = o.raised
            /\ pc = "done" => imgnames = o.imgnames /\ imgs = o.imgs

\* C8 witness: a call with fname_extension="txt" and no fname_pattern has
\* returned two slices.
C8_Witness ==
    /\ InFolderCall /\ pc = "done"
    /\ args.fname_extension = <<"t", "x", "t">> /\ args.fname_pattern = <<>>
    /\ Len(imgs) = 2

\* C9: _function_from_format returns the text decoder for ".txt", the image
\* decoder for ".tif", and raises the not-supported error for every other
\* extension string; array_from_path raises it for every path whose suffix is
\* neither ".txt" nor ".tif".
C9_OnlyTxtAndTifSupported ==
    LET ext == IF op = "array_from_path" THEN Suffix(args.path)
               ELSE args.fname_extension
    IN  (op \in {"_function_from_format", "array_from_path"}) =>
            /\ ext = TXT => pc = "done" /\ import_func = "_txtfile_to_array"
            /\ ext = TIF => pc = "done" /\ import_func = "_imgfile_to_array"
            /\ ext \notin {TXT, TIF} => pc = "raised" /\ raised = NotSupported

\* C10: arrays_from_folder decodes every discovered file with the decoder of
\* that file's own extension (text decoder for .txt, image decoder for .tif),
\* whether the files were found through fname_extension alone or through
\* fname_pattern alone.
C10_DecoderOfOwnExtension ==
    (/\ InFolderCall /\ pc = "import"
     /\ (args.fname_pattern = <<>> \/ args.fname_extension = <<>>)) =>
        \A i \in DOMAIN imgs :
            /\ Suffix(imgs[i].path) = TXT => imgs[i].by = "_txtfile_to_array"
            /\ Suffix(imgs[i].path) = TIF => imgs[i].by = "_imgfile_to_array"

-----------------------------------------------------------------------------
(* _txtfile_to_array *)

\* most header rows a text file has before its numeric rows
MaxHeader == 5

\* most numeric rows a text file has
MaxRows == 2

\* a text file: whether it exists, the number of its header rows (rows that
\* do not parse as numbers) and the number of numeric rows after them
TxtFiles ==
    [path : {"Image3_7.txt"}, exists : {TRUE}, header : 0..MaxHeader,
     rows : 1..MaxRows]
    \cup [path : {"gone.txt"}, exists : {FALSE}, header : {0}, rows : {1}]

\* the skiprows argument: None, or <<k>> for the int k
SkiprowsArgs == { None } \cup { <<k>> : k \in 0..MaxHeader }

\* what np.loadtxt(path, skiprows=k) raises: a missing file is an OSError, a
\* header row left after the skip does not convert to a number
LoadtxtRaises(file, k) ==
    IF ~file.exists THEN "FileNotFoundError"
    ELSE IF k < file.header THEN "ValueError"
    ELSE "None"

\* what np.loadtxt(path, skiprows=k) returns when it does not raise: the
\* numeric rows left after the skip, as the numbers of the file's lines
Loadtxt(file, k) ==
    [path |-> file.path,
     lines |-> { n \in (file.header + 1)..(file.header + file.rows) : n > k }]

\* range(5)
AttemptCountsFive == <<0, 1, 2, 3, 4>>

\* line 230: range(4)
AttemptCounts == <<0, 1, 2, 3>>

CouldNotImport == "ValueError: Could not import"

NoArray == [path |-> "None", lines |-> {}]

InitTxt ==
    /\ listing = <<>> /\ pc = "idle" /\ op = "none" /\ args = NoArgs
    /\ fname_extension = <<>> /\ pattern = <<>> /\ globbed = <<>>
    /\ globs = 0 /\ imgpaths = <<>> /\ import_func = "None"
    /\ imgs = <<>> /\ imgnames = <<>> /\ raised = "None"
    /\ txt = [pc |-> "idle"]
    /\ fl = NotInUse /\ stk = NotInUse /\ ann = NotInUse /\ zs = NotInUse

\* a caller invokes _txtfile_to_array(path, skiprows=...)
CallTxtfileToArray ==
    /\ txt.pc = "idle"
    /\ \E f \in TxtFiles, k \in SkiprowsArgs :
          txt' = [pc |-> "start", file |-> f, skiprows |-> k, i |-> 1,
                  tried |-> <<>>, raised |-> "None", named |-> "None",
                  ret |-> NoArray]
    /\ UNCHANGED <<importvars, fl, stk, ann, zs>>

\* lines 226-227: skiprows is given, one np.loadtxt whose exception propagates
TxtSkiprowsGiven ==
    /\ txt.pc = "start" /\ txt.skiprows # None
    /\ LET k   == txt.skiprows[1]
           exc == LoadtxtRaises(txt.file, k)
       IN  txt' = [txt EXCEPT
                     !.tried = Append(@, k),
                     !.raised = exc,
                     !.ret = IF exc = "None" THEN Loadtxt(txt.file, k) ELSE @,
                     !.pc = IF exc = "None" THEN "done" ELSE "raised"]
    /\ UNCHANGED <<importvars, fl, stk, ann, zs>>

\* lines 230-234: one iteration of the loop; only ValueError is caught
TxtTrySkip ==
    /\ txt.pc = "start" /\ txt.skiprows = None
    /\ txt.i <= Len(AttemptCounts)
    /\ LET k   == AttemptCounts[txt.i]
           exc == LoadtxtRaises(txt.file, k)
       IN  txt' = [txt EXCEPT
                     !.tried = Append(@, k),
                     !.i = @ + 1,
                     !.raised = IF exc = "ValueError" THEN "None" ELSE exc,
                     !.ret = IF exc = "None" THEN Loadtxt(txt.file, k) ELSE @,
                     !.pc = IF exc = "None" THEN "done"
                            ELSE IF exc = "ValueError" THEN "start"
                            ELSE "raised"]
    /\ UNCHANGED <<importvars, fl, stk, ann, zs>>

\* line 236: no skiprows worked
TxtNoSkipWorked ==
    /\ txt.pc = "start" /\ txt.skiprows = None
    /\ txt.i > Len(AttemptCounts)
    /\ txt' = [txt EXCEPT !.raised = CouldNotImport,
                          !.named = txt.file.path,
                          !.pc = "raised"]
    /\ UNCHANGED <<importvars, fl, stk, ann, zs>>

\* the call has returned or raised
TxtReturn ==
    /\ txt.pc \in {"done", "raised"}
    /\ txt' = [pc |-> "idle"]
    /\ UNCHANGED <<importvars, fl, stk, ann, zs>>

NextTxt ==
    \/ CallTxtfileToArray
    \/ TxtSkiprowsGiven
    \/ TxtTrySkip
    \/ TxtNoSkipWorked
    \/ TxtReturn

SpecTxt == InitTxt /\ [][NextTxt]_vars

IsPrefix(s, t) == Len(s) <= Len(t) /\ s = SubSeq(t, 1, Len(s))

\* C11: with skiprows=k given, _txtfile_to_array tries exactly [k] and a
\* failure propagates without retry; with skiprows not given it tries
\* 0,1,2,3 in that order, returns the first decode that succeeds, never tries
\* a count above 3, and raises "Could not import <path>" when all four
\* attempts fail, so a file with more than 3 header rows never yields data.
C11_SkipCountsTried ==
    (txt.pc \in {"start", "done", "raised"}) =>
        LET f == txt.file
            decodes(k) == f.exists /\ k >= f.header
        IN  IF txt.skiprows # None
            THEN /\ IsPrefix(txt.tried, <<txt.skiprows[1]>>)
                 /\ txt.pc \in {"done", "raised"} =>
                       /\ txt.tried = <<txt.skiprows[1]>>
                       /\ (txt.pc = "done") = decodes(txt.skiprows[1])
                 /\ txt.pc = "raised" => txt.raised # CouldNotImport
            ELSE /\ IsPrefix(txt.tried, <<0, 1, 2, 3>>)
                 /\ \A n \in 1..(Len(txt.tried) - 1) : ~decodes(txt.tried[n])
                 /\ txt.pc = "done" =>
                       /\ decodes(txt.tried[Len(txt.tried)])
                       /\ txt.ret.path = f.path
                       /\ txt.ret.lines = (f.header + 1)..(f.header + f.rows)
                 /\ (txt.pc = "raised" /\ f.exists) =>
                       /\ txt.tried = <<0, 1, 2, 3>>
                       /\ f.header > 3
                       /\ txt.raised = CouldNotImport
                       /\ txt.named = f.path
                 /\ (txt.pc = "done" /\ f.exists) => f.header <= 3

\* C11 witness: a file with 5 header rows, skiprows not given: the four
\* attempts 0..3 were made and the call raised "Could not import".
C11_Witness ==
    /\ txt.pc = "raised" /\ txt.skiprows = None
    /\ txt.file.header = 5
    /\ txt.tried = <<0, 1, 2, 3>>
    /\ txt.raised = CouldNotImport

-----------------------------------------------------------------------------
(* arrays_from_folderlist *)

\* most folders in the list handed to arrays_from_folderlist
MaxFolders == 3

\* the folders on disk and the files each lists: three .txt files, two .txt
\* files, and no file
Disk ==
    [f \in {"data/exp1", "data/exp2", "data/exp3"} |->
        CASE f = "data/exp1" ->
                << <<"b", "_", "2", ".", "t", "x", "t">>,
                   <<"a", "_", "1", "0", ".", "t", "x", "t">>,
                   <<"a", "_", "2", ".", "t", "x", "t">> >>
          [] f = "data/exp2" ->
                << <<"a", "_", "2", ".", "t", "x", "t">>,
                   <<"a", "_", "1", "0", ".", "t", "x", "t">> >>
          [] f = "data/exp3" -> << >>]

\* the folders argument: up to MaxFolders folders, repeats allowed
FolderLists == UNION { [1..n -> DOMAIN Disk] : n \in 0..MaxFolders }

\* the imgname_position argument: an int, or a list of ints
PositionArgs ==
    [int : {0, 1}]
    \cup [list : UNION { [1..n -> {0, 1}] : n \in 0..MaxFolders }]

IsInt(p) == "int" \in DOMAIN p

\* **import_kws
ImportKws ==
    [fname_pattern : {<<>>}, fname_extension : {TXT},
     sort : BOOLEAN, invertorder : BOOLEAN]

\* lines 38-39 making a list of one element
BroadcastOnce(imgname_position, n) ==
    IF IsInt(imgname_position) THEN <<imgname_position.int>>
    ELSE imgname_position.list

\* lines 38-39: one int becomes a list of that int, one per folder
Broadcast(imgname_position, n) ==
    IF IsInt(imgname_position) THEN [i \in 1..n |-> imgname_position.int]
    ELSE imgname_position.list

ConfigurationError == "ConfigurationError: imgkey_positions, folders"

\* ut.check_samelength_or_number: the list, or an error when its length is
\* not that of the folders
check_samelength_or_number(val, target_n) ==
    IF Len(val) # target_n
    THEN [raised |-> ConfigurationError, value |-> <<>>]
    ELSE [raised |-> "None", value |-> val]

\* a dict is the sequence of its (key, value) items in insertion order.
\* d.setdefault(key, value): an existing key keeps its value
DictSetDefault(d, key, value) ==
    IF \E i \in DOMAIN d : d[i].key = key THEN d
    ELSE Append(d, [key |-> key, value |-> value])

\* d[key] = value: an existing key keeps its place and takes the new value
DictSet(d, key, value) ==
    IF \E i \in DOMAIN d : d[i].key = key
    THEN [i \in DOMAIN d |-> IF d[i].key = key
                             THEN [key |-> key, value |-> value] ELSE d[i]]
    ELSE Append(d, [key |-> key, value |-> value])

\* line 59
ImgsDictSet(d, key, value) == DictSet(d, key, value)

\* line 60
NamesDictSet(d, key, value) == DictSet(d, key, value)

\* lines 63-64: flatten(list(d.values()))
RECURSIVE FlattenValues(_)
FlattenValues(d) ==
    IF d = <<>> THEN <<>> ELSE Head(d).value \o FlattenValues(Tail(d))

\* the arguments of the arrays_from_folder call of lines 53-57
FolderCallArgs(path, imgkey_position, kws) ==
    [folder |-> path, fname_pattern |-> kws.fname_pattern,
     fname_extension |-> kws.fname_extension, sort |-> kws.sort,
     imgname_position |-> <<imgkey_position>>,
     invertorder |-> kws.invertorder]

InitFolderlist ==
    /\ listing = <<>> /\ pc = "idle" /\ op = "none" /\ args = NoArgs
    /\ fname_extension = <<>> /\ pattern = <<>> /\ globbed = <<>>
    /\ globs = 0 /\ imgpaths = <<>> /\ import_func = "None"
    /\ imgs = <<>> /\ imgnames = <<>> /\ raised = "None"
    /\ fl = [pc |-> "idle"]
    /\ txt = NotInUse /\ stk = NotInUse /\ ann = NotInUse /\ zs = NotInUse

\* a caller invokes arrays_from_folderlist(folders, imgname_position, **kws)
CallArraysFromFolderlist ==
    /\ fl.pc = "idle"
    /\ \E fs \in FolderLists, p \in PositionArgs, kws \in ImportKws :
          fl' = [pc |-> "start", folders |-> fs, imgname_position |-> p,
                 import_kws |-> kws, positions |-> <<>>, scanned |-> <<>>,
                 imgs_dict |-> <<>>, imgnames_dict |-> <<>>,
                 raised |-> "None", imgnames |-> <<>>, imgs |-> <<>>]
    /\ UNCHANGED <<importvars, txt, stk, ann, zs>>

\* lines 37-39
FlMakeList ==
    /\ fl.pc = "start"
    /\ fl' = [fl EXCEPT
                !.positions = Broadcast(fl.imgname_position, Len(fl.folders)),
                !.pc = "check"]
    /\ UNCHANGED <<importvars, txt, stk, ann, zs>>

\* lines 41-48
FlCheckLength ==
    /\ fl.pc = "check"
    /\ LET c == check_samelength_or_number(fl.positions, Len(fl.folders))
       IN  fl' = [fl EXCEPT
                    !.positions = c.value,
                    !.raised = c.raised,
                    !.pc = IF c.raised = "None" THEN "loop" ELSE "raised"]
    /\ UNCHANGED <<importvars, txt, stk, ann, zs>>

\* lines 52-60: one iteration over zip(folders, imgname_position)
FlImportFolder ==
    /\ fl.pc = "loop"
    /\ Len(fl.scanned) < Len(fl.folders)
    /\ Len(fl.scanned) < Len(fl.positions)
    /\ LET i    == Len(fl.scanned) + 1
           path == fl.folders[i]
           a    == FolderCallArgs(path, fl.positions[i], fl.import_kws)
           o    == arrays_from_folder(Disk[path], a)
           p    == shortenpath(path)
       IN  fl' = [fl EXCEPT
                    !.scanned = Append(@, a),
                    !.raised = o.raised,
                    !.pc = IF o.raised = "None" THEN "loop" ELSE "raised",
                    !.imgs_dict = IF o.raised = "None"
                                  THEN ImgsDictSet(@, p, o.imgs) ELSE @,
                    !.imgnames_dict = IF o.raised = "None"
                                      THEN NamesDictSet(@, p, o.imgnames)
                                      ELSE @]
    /\ UNCHANGED <<importvars, txt, stk, ann, zs>>

\* lines 62-78, once zip is exhausted
FlFlatten ==
    /\ fl.pc = "loop"
    /\ Len(fl.scanned) = Len(fl.folders) \/ Len(fl.scanned) = Len(fl.positions)
    /\ fl' = [fl EXCEPT !.imgs = FlattenValues(fl.imgs_dict),
                        !.imgnames = fl.imgnames_dict,
                        !.pc = "done"]
    /\ UNCHANGED <<importvars, txt, stk, ann, zs>>

\* the call has returned or raised
FlReturn ==
    /\ fl.pc \in {"done", "raised"}
    /\ fl' = [pc |-> "idle"]
    /\ UNCHANGED <<importvars, txt, stk, ann, zs>>

NextFolderlist ==
    \/ CallArraysFromFolderlist
    \/ FlMakeList
    \/ FlCheckLength
    \/ FlImportFolder
    \/ FlFlatten
    \/ FlReturn

SpecFolderlist == InitFolderlist /\ [][NextFolderlist]_vars

InFolderlistCall == fl.pc \notin {"unused", "idle"}

\* C12: arrays_from_folderlist given a per-folder imgname_position list whose
\* length is not the number of folders raises the configuration error before
\* any folder is scanned, and raises it in no other case; given one int, every
\* folder is scanned with that int and none is left out.
C12_MismatchRaisesBeforeScan ==
    InFolderlistCall =>
        LET p == fl.imgname_position
            n == Len(fl.folders)
            mismatch == ~IsInt(p) /\ Len(p.list) # n
        IN  /\ (mismatch /\ fl.pc \notin {"start", "check"}) =>
                  /\ fl.pc = "raised" /\ fl.raised = ConfigurationError
                  /\ fl.scanned = <<>> /\ fl.imgs_dict = <<>>
            /\ fl.raised = ConfigurationError => mismatch
            /\ IsInt(p) =>
                  /\ \A i \in DOMAIN fl.scanned :
                        /\ fl.scanned[i].folder = fl.folders[i]
                        /\ fl.scanned[i].imgname_position = <<p.int>>
                  /\ fl.pc = "done" => Len(fl.scanned) = n

\* C12 witness: three folders and the list [0, 1]; the call has raised the
\* configuration error with no folder scanned.
C12_Witness ==
    /\ fl.pc = "raised" /\ fl.raised = ConfigurationError
    /\ Len(fl.folders) = 3 /\ fl.folders[1] # fl.folders[2]
    /\ fl.imgname_position = [list |-> <<0, 1>>]
    /\ fl.scanned = <<>>

\* what arrays_from_folder gives for the i-th listed folder on its own
PerFolder(i) ==
    arrays_from_folder(Disk[fl.folders[i]],
                       FolderCallArgs(fl.folders[i], fl.positions[i],
                                      fl.import_kws))

\* the slices of the listed folders i, i+1, ... one folder after the other
RECURSIVE SlicesFrom(_)
SlicesFrom(i) ==
    IF i > Len(fl.folders) THEN <<>>
    ELSE PerFolder(i).imgs \o SlicesFrom(i + 1)

\* C13: whenever arrays_from_folderlist returns, for any list of folders,
\* the flattened stack is the concatenation, in folder order, of every listed
\* folder's ordered slices, and the name mapping has one key per listed
\* folder, each mapped to that folder's own names.
C13_ConcatenationOfEveryFolder ==
    fl.pc = "done" =>
        /\ fl.imgs = SlicesFrom(1)
        /\ Len(fl.imgnames) = Len(fl.folders)
        /\ \A i \in DOMAIN fl.folders :
              \E j \in DOMAIN fl.imgnames :
                  /\ fl.imgnames[j].key = shortenpath(fl.folders[i])
                  /\ fl.imgnames[j].value = PerFolder(i).imgnames

\* the name lists of a mapping one after the other, in key order
RECURSIVE NamesInKeyOrder(_)
NamesInKeyOrder(d) ==
    IF d = <<>> THEN <<>> ELSE Head(d).value \o NamesInKeyOrder(Tail(d))

\* C16: whenever arrays_from_folderlist returns, the name lists of the
\* returned mapping, concatenated in key order, are exactly the .name values
\* of the slices of the returned flattened stack.
C16_NamesAgreeWithSlices ==
    fl.pc = "done" =>
        NamesInKeyOrder(fl.imgnames) = [i \in DOMAIN fl.imgs |-> fl.imgs[i].name]

\* C16 witness: the same folder is listed twice, first with position 0 and
\* then with position 1, so the second pass replaces what the first stored
\* under the same key; the call has returned the three slices of that key.
C16_Witness ==
    /\ fl.pc = "done"
    /\ Len(fl.folders) = 2 /\ fl.folders[1] = fl.folders[2]
    /\ fl.positions = <<0, 1>>
    /\ Len(fl.imgnames) = 1 /\ Len(fl.imgs) = 3

-----------------------------------------------------------------------------
(* Stack *)

\* most slices in a stack
MaxSlices == 3

\* a stack of n slices as imported: pixels without a scale bar, and each
\* slice with its own name and pixel_length
StackOf(n) ==
    [i \in 1..n |-> [px |-> "raw", name |-> <<"img", i>>,
                     folder |-> "data/stack", pixel_length |-> i,
                     unit |-> "um"]]

Provenance(slice) ==
    [name |-> slice.name, folder |-> slice.folder,
     pixel_length |-> slice.pixel_length, unit |-> slice.unit]

\* the array itself under another name: writes through it reach self.imgs
SameArray(a) == [ref |-> "self", value |-> a]

\* a.copy(): a new array with the same content
copy(a) == [ref |-> "new", value |-> a]

\* line 180: imgs = self.imgs if inplace else self.imgs.copy()
BurnTarget(a, inplace) ==
    IF inplace THEN [ref |-> "self", value |-> a] ELSE copy(a)

\* lines 213-214: _imgs = self.imgs.copy()
ImshowTarget(a) == copy(a)

\* line 249: _imgs = self.imgs.copy()
MipTarget(a) == copy(a)

\* what scaleb.burn_scalebars or a plot with scalebar=True may make of the
\* array it is handed: any of its slices with a scale bar burned in
WithScalebars(a) ==
    { b \in [DOMAIN a -> {a[i] : i \in DOMAIN a}
                         \cup {[a[i] EXCEPT !.px = "bar"] : i \in DOMAIN a}] :
        \A i \in DOMAIN a : b[i] \in {a[i], [a[i] EXCEPT !.px = "bar"]} }

NoLocal == [ref |-> "none", value |-> <<>>]

StackOps == {"burn_scalebars", "imshow", "mip"}

\* the stack after its construction, n slices, and no call in progress
IdleStack(a, original, inplace, burned) ==
    [pc |-> "idle", imgs |-> a, original |-> original,
     inplace_called |-> inplace, burned_copy |-> burned,
     op |-> "none", arg |-> FALSE, index |-> [kind |-> "none"],
     before |-> <<>>, local |-> NoLocal, ret |-> <<>>, raised |-> "None"]

InitStack ==
    /\ listing = <<>> /\ pc = "idle" /\ op = "none" /\ args = NoArgs
    /\ fname_extension = <<>> /\ pattern = <<>> /\ globbed = <<>>
    /\ globs = 0 /\ imgpaths = <<>> /\ import_func = "None"
    /\ imgs = <<>> /\ imgnames = <<>> /\ raised = "None"
    /\ \E n \in 1..MaxSlices :
          stk = IdleStack(StackOf(n), StackOf(n), FALSE, {})
    /\ txt = NotInUse /\ fl = NotInUse /\ ann = NotInUse /\ zs = NotInUse

\* the array after a write of b through the local name
StoredAfterWrite(local, stored, b) ==
    IF local.ref = "self" THEN b ELSE stored

\* a caller invokes S.burn_scalebars(inplace=...), S.imshow(scalebar=...) or
\* S.mip(scalebar=...)
CallStackMethod ==
    /\ stk.pc = "idle"
    /\ \E m \in StackOps, b \in BOOLEAN :
          stk' = [stk EXCEPT
                    !.pc = "target", !.op = m, !.arg = b,
                    !.before = stk.imgs,
                    !.ret = <<>>, !.raised = "None",
                    !.inplace_called = @ \/ (m = "burn_scalebars" /\ b)]
    /\ UNCHANGED <<importvars, txt, fl, ann, zs>>

\* line 180, lines 213-214, line 249
BindLocal ==
    /\ stk.pc = "target"
    /\ stk' = [stk EXCEPT
                 !.local = CASE stk.op = "burn_scalebars" ->
                                  BurnTarget(stk.imgs, stk.arg)
                             [] stk.op = "imshow" -> ImshowTarget(stk.imgs)
                             [] stk.op = "mip" -> MipTarget(stk.imgs),
                 !.pc = stk.op]
    /\ UNCHANGED <<importvars, txt, fl, ann, zs>>

\* lines 182-192: scaleb.burn_scalebars(imgs=imgs, ...) burns into the array
\* it is handed, or into an array of its own
BurnScalebars ==
    /\ stk.pc = "burn_scalebars"
    /\ \E b \in WithScalebars(stk.local.value), into \in BOOLEAN :
          stk' = [stk EXCEPT
                    !.imgs = IF into
                             THEN StoredAfterWrite(stk.local, @, b) ELSE @,
                    !.local = IF into THEN [@ EXCEPT !.value = b] ELSE @,
                    !.burned_copy =
                        IF into /\ b # stk.local.value /\ ~stk.arg
                        THEN @ \cup {"burn_scalebars"} ELSE @,
                    !.ret = b, !.pc = "return"]
    /\ UNCHANGED <<importvars, txt, fl, ann, zs>>

\* lines 216-244: imageplots.imshow(imgs=_imgs, scalebar=scalebar, ...) or
\* imshow_batched; with scalebar=True the plot may burn into the array it is
\* handed
Imshow ==
    /\ stk.pc = "imshow"
    /\ \E b \in (IF stk.arg THEN WithScalebars(stk.local.value)
                 ELSE {stk.local.value}) :
          stk' = [stk EXCEPT
                    !.imgs = StoredAfterWrite(stk.local, @, b),
                    !.local = [@ EXCEPT !.value = b],
                    !.burned_copy = IF b # stk.local.value
                                    THEN @ \cup {"imshow"} ELSE @,
                    !.pc = "return"]
    /\ UNCHANGED <<importvars, txt, fl, ann, zs>>

\* lines 250-256: with scalebar, _imgs[0] = self.burn_scalebars()[0], the
\* inner call binding its own local by line 180 with inplace=False; then
\* imageplots.mip reads _imgs
Mip ==
    /\ stk.pc = "mip"
    /\ \/ /\ ~stk.arg
          /\ stk' = [stk EXCEPT !.pc = "return"]
       \/ /\ stk.arg
          /\ LET inner == BurnTarget(stk.imgs, FALSE)
             IN  \E b \in WithScalebars(inner.value), into \in BOOLEAN :
                   LET stored == IF into
                                 THEN StoredAfterWrite(inner, stk.imgs, b)
                                 ELSE stk.imgs
                       base   == IF stk.local.ref = "self" THEN stored
                                 ELSE stk.local.value
                       _imgs  == [base EXCEPT ![1] = b[1]]
                   IN  stk' = [stk EXCEPT
                                 !.imgs = StoredAfterWrite(stk.local, stored,
                                                           _imgs),
                                 !.local = [@ EXCEPT !.value = _imgs],
                                 !.burned_copy =
                                     IF _imgs # stk.local.value
                                     THEN @ \cup {"mip"} ELSE @,
                                 !.pc = "return"]
    /\ UNCHANGED <<importvars, txt, fl, ann, zs>>

\* the method returns; its locals are gone
StackReturn ==
    /\ stk.pc = "return"
    /\ stk' = IdleStack(stk.imgs, stk.original, stk.inplace_called,
                        stk.burned_copy)
    /\ UNCHANGED <<importvars, txt, fl, ann, zs>>

\* the index expressions S[...] is called with: an int, a list or tuple of
\* ints, or start:stop:step
IndexExprs ==
    [kind : {"int"}, i : (-MaxSlices)..MaxSlices]
    \cup [kind : {"list"},
          ix : UNION { [1..k -> (-1)..(MaxSlices - 1)] : k \in 1..2 }]
    \cup [kind : {"slice"}, start : (-1)..MaxSlices,
          stop : (-1)..(MaxSlices + 1), step : 1..3]

\* an int index counted from the end when negative
NormIndex(i, n) == IF i < 0 THEN i + n ELSE i

\* a slice bound brought into 0..n
ClampBound(b, n) ==
    LET c == NormIndex(b, n)
    IN  IF c < 0 THEN 0 ELSE IF c > n THEN n ELSE c

\* start:stop:step taking every index from start to stop
SliceRangeEveryIndex(start, stop, step, n) ==
    LET lo == ClampBound(start, n)
        hi == ClampBound(stop, n)
    IN  [k \in 1..(IF hi > lo THEN hi - lo ELSE 0) |-> lo + k]

\* the positions (from 1) that start:stop:step addresses in n slices
SliceRange(start, stop, step, n) ==
    LET lo == ClampBound(start, n)
        hi == ClampBound(stop, n)
        count == IF hi > lo THEN (hi - lo + step - 1) \div step ELSE 0
    IN  [k \in 1..count |-> lo + (k - 1) * step + 1]

\* the positions (from 1) an index expression addresses in n slices
Addressed(idx, n) ==
    CASE idx.kind = "int" -> <<NormIndex(idx.i, n) + 1>>
      [] idx.kind = "list" ->
            [k \in DOMAIN idx.ix |-> NormIndex(idx.ix[k], n) + 1]
      [] idx.kind = "slice" ->
            SliceRange(idx.start, idx.stop, idx.step, n)

\* S[idx]: the slices of a new Stack, or an IndexError
Stack__getitem__(a, idx) ==
    LET pos == Addressed(idx, Len(a))
    IN  IF \E k \in DOMAIN pos : pos[k] < 1 \/ pos[k] > Len(a)
        THEN [raised |-> "IndexError", value |-> <<>>]
        ELSE [raised |-> "None", value |-> [k \in DOMAIN pos |-> a[pos[k]]]]

\* a caller evaluates S[idx]
CallGetitem ==
    /\ stk.pc = "idle"
    /\ \E idx \in IndexExprs :
          stk' = [stk EXCEPT !.pc = "getitem", !.op = "getitem",
                             !.index = idx, !.before = stk.imgs,
                             !.ret = <<>>, !.raised = "None"]
    /\ UNCHANGED <<importvars, txt, fl, ann, zs>>

\* S[idx] is made, or raises
StackGetitem ==
    /\ stk.pc = "getitem"
    /\ LET r == Stack__getitem__(stk.imgs, stk.index)
       IN  stk' = [stk EXCEPT !.ret = r.value, !.raised = r.raised,
                              !.pc = "return"]
    /\ UNCHANGED <<importvars, txt, fl, ann, zs>>

NextStack ==
    \/ CallStackMethod
    \/ BindLocal
    \/ BurnScalebars
    \/ Imshow
    \/ Mip
    \/ CallGetitem
    \/ StackGetitem
    \/ StackReturn

SpecStack == InitStack /\ [][NextStack]_vars

\* the index expression addresses only slices the stack has
ValidIndex(idx, n) ==
    CASE idx.kind = "int" -> -n <= idx.i /\ idx.i < n
      [] idx.kind = "list" ->
            \A k \in DOMAIN idx.ix : -n <= idx.ix[k] /\ idx.ix[k] < n
      [] idx.kind = "slice" -> TRUE

\* position (from 1) of index i, counting from the end when i is negative
PositionOf(i, n) == IF i < 0 THEN n + i + 1 ELSE i + 1

\* the positions start:stop:step addresses, as a set
SlicePositions(idx, n) ==
    LET from(b) == IF b < 0 THEN (IF b + n < 0 THEN 0 ELSE b + n)
                   ELSE (IF b > n THEN n ELSE b)
    IN  { j \in 1..n : /\ from(idx.start) <= j - 1
                       /\ j - 1 < from(idx.stop)
                       /\ (j - 1 - from(idx.start)) % idx.step = 0 }

\* C14: for a Stack S and a valid index expression i (an int, a list or
\* tuple of ints, or start:stop:step), S[i] does not raise and holds exactly
\* the addressed slices, in the order addressed, each with the provenance
\* (name, folder, pixel_length, unit) of the slice of S it comes from, and
\* S.imgs is what it was before.
C14_IndexingKeepsProvenance ==
    (stk.pc = "return" /\ stk.op = "getitem") =>
        LET S   == stk.before
            n   == Len(S)
            idx == stk.index
            r   == stk.ret
        IN  /\ stk.imgs = S
            /\ ValidIndex(idx, n) <=> stk.raised = "None"
            /\ (stk.raised = "None" /\ idx.kind = "int") =>
                  /\ Len(r) = 1
                  /\ Provenance(r[1]) = Provenance(S[PositionOf(idx.i, n)])
            /\ (stk.raised = "None" /\ idx.kind = "list") =>
                  /\ Len(r) = Len(idx.ix)
                  /\ \A k \in DOMAIN r :
                        Provenance(r[k]) =
                            Provenance(S[PositionOf(idx.ix[k], n)])
            /\ (stk.raised = "None" /\ idx.kind = "slice") =>
                  LET P == SlicePositions(idx, n)
                  IN  /\ Len(r) = Cardinality(P)
                      /\ \A k \in DOMAIN r :
                            \E j \in P :
                                /\ Cardinality({i \in P : i < j}) = k - 1
                                /\ Provenance(r[k]) = Provenance(S[j])

\* C14 witness: S[0:10:2] on a stack of three slices has returned the first
\* and the third.
C14_Witness ==
    /\ stk.pc = "return" /\ stk.op = "getitem" /\ stk.raised = "None"
    /\ Len(stk.before) = 3
    /\ stk.index = [kind |-> "slice", start |-> 0, stop |-> 4, step |-> 2]
    /\ Len(stk.ret) = 2
    /\ stk.ret[2].name = <<"img", 3>>

\* C15: as long as burn_scalebars(inplace=True) has not been called, whatever
\* calls of imshow, mip and burn_scalebars(inplace=False) were made and
\* whatever the plotting and burning functions did to the array handed to
\* them, self.imgs is what it was at construction; and a method works on
\* self.imgs itself only in burn_scalebars(inplace=True).
C15_StoredImagesUnchanged ==
    stk.pc # "unused" =>
        /\ ~stk.inplace_called => stk.imgs = stk.original
        /\ stk.local.ref = "self" => (stk.op = "burn_scalebars" /\ stk.arg)

\* C15 witness: imshow with a scale bar, mip with a scale bar and
\* burn_scalebars(inplace=False) have each burned a scale bar into the array
\* they worked on, and burn_scalebars(inplace=True) has not been called.
C15_Witness ==
    /\ stk.pc = "idle" /\ ~stk.inplace_called
    /\ stk.burned_copy = {"burn_scalebars", "imshow", "mip"}
    /\ Len(stk.imgs) = 2

-----------------------------------------------------------------------------
(* update_annotations *)

\* pixels of a label array, and the largest label
NPixels == 2
MaxLabel == 2

\* the label arrays; 0 is "no label"
Labels == [1..NPixels -> 0..MaxLabel]

\* os.path.exists(fname) is false
NoFile == <<>>

\* np.array_equal
array_equal(a, b) == a = b

\* line 263: A_viewer[A_hd > 0] = A_hd[A_hd > 0]
HdToViewer(A_viewer, A_hd) ==
    [i \in DOMAIN A_viewer |-> IF A_hd[i] > 0 THEN A_hd[i] ELSE A_viewer[i]]

\* lines 212-222
open_annotations(file) == IF file = NoFile THEN None ELSE file

IdleAnnot(file, data) ==
    [pc |-> "idle", file |-> file, data |-> data, viewer |-> FALSE,
     file_at_call |-> NoFile, data_at_call |-> None, branch |-> "none",
     ret |-> None]

\* the cache file is absent or holds labels; the viewer's label layer holds
\* labels or no data
InitAnnot ==
    /\ listing = <<>> /\ pc = "idle" /\ op = "none" /\ args = NoArgs
    /\ fname_extension = <<>> /\ pattern = <<>> /\ globbed = <<>>
    /\ globs = 0 /\ imgpaths = <<>> /\ import_func = "None"
    /\ imgs = <<>> /\ imgnames = <<>> /\ raised = "None"
    /\ \E file \in Labels \cup {NoFile}, data \in Labels \cup {None} :
          ann = IdleAnnot(file, data)
    /\ txt = NotInUse /\ fl = NotInUse /\ stk = NotInUse /\ zs = NotInUse

\* a caller invokes update_annotations(viewer) or update_annotations()
CallUpdateAnnotations ==
    /\ ann.pc = "idle"
    /\ \E v \in BOOLEAN :
          ann' = [ann EXCEPT !.pc = "called", !.viewer = v,
                             !.file_at_call = ann.file,
                             !.data_at_call = ann.data,
                             !.branch = "none", !.ret = None]
    /\ UNCHANGED <<importvars, txt, fl, stk, zs>>

\* lines 233-235
AnnNoViewer ==
    /\ ann.pc = "called" /\ ~ann.viewer
    /\ ann' = [ann EXCEPT !.branch = "no viewer",
                          !.ret = open_annotations(ann.file),
                          !.pc = "return"]
    /\ UNCHANGED <<importvars, txt, fl, stk, zs>>

\* lines 238-241
AnnFileAbsent ==
    /\ ann.pc = "called" /\ ann.viewer /\ ann.file = NoFile
    /\ ann' = [ann EXCEPT !.branch = "file absent",
                          !.file = ann.data, !.ret = ann.data,
                          !.pc = "return"]
    /\ UNCHANGED <<importvars, txt, fl, stk, zs>>

\* lines 244-253
AnnViewerEmpty ==
    /\ ann.pc = "called" /\ ann.viewer /\ ann.file # NoFile
    /\ ann.data = None
    /\ LET A_hd == open_annotations(ann.file)
       IN  ann' = [ann EXCEPT !.branch = "viewer empty",
                              !.data = A_hd, !.ret = A_hd, !.pc = "return"]
    /\ UNCHANGED <<importvars, txt, fl, stk, zs>>

\* lines 255-257
AnnMatch ==
    /\ ann.pc = "called" /\ ann.viewer /\ ann.file # NoFile
    /\ ann.data # None
    /\ array_equal(open_annotations(ann.file), ann.data)
    /\ ann' = [ann EXCEPT !.branch = "match", !.ret = ann.data,
                          !.pc = "return"]
    /\ UNCHANGED <<importvars, txt, fl, stk, zs>>

\* lines 259-271
AnnNoMatch ==
    /\ ann.pc = "called" /\ ann.viewer /\ ann.file # NoFile
    /\ ann.data # None
    /\ ~array_equal(open_annotations(ann.file), ann.data)
    /\ LET A_hd     == open_annotations(ann.file)
           A_viewer == HdToViewer(ann.data, A_hd)
       IN  ann' = [ann EXCEPT !.branch = "no match",
                              !.data = A_viewer, !.file = A_viewer,
                              !.ret = A_viewer, !.pc = "return"]
    /\ UNCHANGED <<importvars, txt, fl, stk, zs>>

\* line 272 (or 235); until the next call the user may paint in the viewer
AnnReturn ==
    /\ ann.pc = "return"
    /\ \E data \in {ann.data} \cup Labels :
          ann' = IdleAnnot(ann.file, data)
    /\ UNCHANGED <<importvars, txt, fl, stk, zs>>

NextAnnot ==
    \/ CallUpdateAnnotations
    \/ AnnNoViewer
    \/ AnnFileAbsent
    \/ AnnViewerEmpty
    \/ AnnMatch
    \/ AnnNoMatch
    \/ AnnReturn

SpecAnnot == InitAnnot /\ [][NextAnnot]_vars

\* C17: update_annotations called with a viewer that holds labels, whatever
\* the cache file was (absent, equal to the viewer's labels, different from
\* them), leaves the cache file, the viewer's label layer and the returned
\* array all equal to the labels the viewer held when the call was made.
C17_CachesViewerLabels ==
    (ann.pc = "return" /\ ann.viewer /\ ann.data_at_call # None) =>
        /\ ann.file = ann.data_at_call
        /\ ann.data = ann.data_at_call
        /\ ann.ret = ann.data_at_call

-----------------------------------------------------------------------------
(* ZStack *)

\* most slices of a z-stack, largest z_dist and largest pixel_length (both
\* in the same unit of length)
MaxZSlices == 2
MaxZDist == 5
MaxPixelLength == 2

\* the slices super().__init__ leaves in self.imgs: attr is <<v>> when the
\* slices have a pixel_length attribute of value v, None when they have none
ZImgs(n, attr) ==
    [i \in 1..n |-> [id |-> i, px |-> "raw", pixel_length |-> attr]]

\* hasattr(slice, "pixel_length")
hasattr_pixel_length(slice) == slice.pixel_length # None

PixelLengthError ==
    "ValueError: pixel_length not provided and not found in the images"

\* round(z_dist / pixel_length) with halves rounded up
RoundHalfUp(z_dist, pixel_length) ==
    (2 * z_dist + pixel_length) \div (2 * pixel_length)

\* line 87: int(round(z_dist / pixel_length)); round() takes a half to the
\* even neighbour
thickness_pixel(z_dist, pixel_length) ==
    LET q == z_dist \div pixel_length
        r == z_dist % pixel_length
    IN  IF 2 * r < pixel_length THEN q
        ELSE IF 2 * r > pixel_length THEN q + 1
        ELSE IF q % 2 = 0 THEN q ELSE q + 1

\* lines 91-97: every img of imgs appended k times
RECURSIVE Repeated(_, _)
Repeated(images, k) ==
    IF images = <<>> THEN <<>>
    ELSE [j \in 1..k |-> Head(images)] \o Repeated(Tail(images), k)

\* lines 79-97
fill_z(images, z_dist, pixel_length) ==
    Repeated(images, thickness_pixel(z_dist, pixel_length))

InitZ ==
    /\ listing = <<>> /\ pc = "idle" /\ op = "none" /\ args = NoArgs
    /\ fname_extension = <<>> /\ pattern = <<>> /\ globbed = <<>>
    /\ globs = 0 /\ imgpaths = <<>> /\ import_func = "None"
    /\ imgs = <<>> /\ imgnames = <<>> /\ raised = "None"
    /\ zs = [pc |-> "idle"]
    /\ txt = NotInUse /\ fl = NotInUse /\ stk = NotInUse /\ ann = NotInUse

\* ZStack(imgs, z_dist=..., pixel_length=..., scalebar=...): lines 21-43,
\* super().__init__ has set self.imgs
CallZStack ==
    /\ zs.pc = "idle"
    /\ \E n \in 1..MaxZSlices,
          attr \in {None} \cup {<<v>> : v \in 1..MaxPixelLength},
          z \in 0..MaxZDist,
          p \in {None} \cup {<<v>> : v \in 1..MaxPixelLength},
          sb \in BOOLEAN :
          zs' = [pc |-> "print", imgs |-> ZImgs(n, attr),
                 before_fill |-> <<>>,
                 arg_z_dist |-> z, arg_pixel_length |-> p, scalebar |-> sb,
                 z_dist |-> None, pixel_length |-> None,
                 imgs_zfilled |-> <<>>, raised |-> "None"]
    /\ UNCHANGED <<importvars, txt, fl, stk, ann>>

\* lines 47-48: print(f"{self.imgs[0].pixel_length=}")
ZPrint ==
    /\ zs.pc = "print"
    /\ LET exc == IF ~hasattr_pixel_length(zs.imgs[1])
                  THEN "AttributeError" ELSE "None"
       IN  zs' = [zs EXCEPT !.raised = exc,
                            !.pc = IF exc = "None" THEN "scalebar"
                                   ELSE "raised"]
    /\ UNCHANGED <<importvars, txt, fl, stk, ann>>

\* lines 52-57: self.imgs[0] = self.burn_scalebars()[0]; self.z_dist = z_dist.
\* The burned slice comes from scaleb.burn_scalebars, with or without the
\* attributes of the slice it was made from.
ZScalebar ==
    /\ zs.pc = "scalebar"
    /\ \E keeps \in BOOLEAN :
          zs' = [zs EXCEPT
                   !.imgs = IF zs.scalebar
                            THEN [@ EXCEPT ![1] =
                                    [@ EXCEPT !.px = "bar",
                                              !.pixel_length =
                                                  IF keeps THEN @ ELSE None]]
                            ELSE @,
                   !.z_dist = <<zs.arg_z_dist>>,
                   !.pc = "pixel_length"]
    /\ UNCHANGED <<importvars, txt, fl, stk, ann>>

\* lines 60-67
ZPixelLength ==
    /\ zs.pc = "pixel_length"
    /\ \/ /\ zs.arg_pixel_length # None
          /\ zs' = [zs EXCEPT !.pixel_length = zs.arg_pixel_length,
                              !.pc = "fill_z"]
       \/ /\ zs.arg_pixel_length = None
          /\ hasattr_pixel_length(zs.imgs[1])
          /\ zs' = [zs EXCEPT !.pixel_length = zs.imgs[1].pixel_length,
                              !.pc = "fill_z"]
       \/ /\ zs.arg_pixel_length = None
          /\ ~hasattr_pixel_length(zs.imgs[1])
          /\ zs' = [zs EXCEPT !.raised = PixelLengthError, !.pc = "raised"]
    /\ UNCHANGED <<importvars, txt, fl, stk, ann>>

\* line 70: self.imgs_zfilled = self.fill_z()
ZFillZ ==
    /\ zs.pc = "fill_z"
    /\ zs' = [zs EXCEPT
                !.before_fill = zs.imgs,
                !.imgs_zfilled = fill_z(zs.imgs, zs.z_dist[1],
                                        zs.pixel_length[1]),
                !.pc = "done"]
    /\ UNCHANGED <<importvars, txt, fl, stk, ann>>

\* the constructor has returned or raised
ZReturn ==
    /\ zs.pc \in {"done", "raised"}
    /\ zs' = [pc |-> "idle"]
    /\ UNCHANGED <<importvars, txt, fl, stk, ann>>

NextZ ==
    \/ CallZStack
    \/ ZPrint
    \/ ZScalebar
    \/ ZPixelLength
    \/ ZFillZ
    \/ ZReturn

SpecZ == InitZ /\ [][NextZ]_vars

\* the integers nearest to z_dist / pixel_length
Nearest(z_dist, pixel_length) ==
    { k \in 0..(z_dist + 1) :
        \A m \in 0..(z_dist + 1) :
            LET d(x) == IF x * pixel_length >= z_dist
                        THEN x * pixel_length - z_dist
                        ELSE z_dist - x * pixel_length
            IN  d(k) <= d(m) }

\* C18: the constructor of ZStack takes pixel_length from its argument when
\* that is not None, otherwise from imgs[0].pixel_length when slice 0 has
\* the attribute, and otherwise, and only then, raises the ValueError
\* "pixel_length not provided and not found in the images".
C18_PixelLengthResolved ==
    zs.pc \in {"done", "raised"} =>
        LET inSlice == zs.imgs[1].pixel_length # None
        IN  /\ zs.arg_pixel_length # None =>
                  /\ zs.raised = "None"
                  /\ zs.pixel_length = zs.arg_pixel_length
            /\ (zs.arg_pixel_length = None /\ inSlice) =>
                  /\ zs.raised = "None"
                  /\ zs.pixel_length = zs.imgs[1].pixel_length
            /\ (zs.arg_pixel_length = None /\ ~inSlice) =>
                  zs.raised = PixelLengthError

\* C19: fill_z returns len(imgs) * k slices, k being z_dist / pixel_length
\* rounded to the nearest integer (a half to the even one): positions
\* i*k .. (i+1)*k-1 all hold slice i of imgs, and self.imgs is as before.
C19_EachSliceRepeatedKTimes ==
    zs.pc = "done" =>
        LET near == Nearest(zs.z_dist[1], zs.pixel_length[1])
            k    == CHOOSE x \in near :
                        Cardinality(near) = 1 \/ x % 2 = 0
            n    == Len(zs.before_fill)
        IN  /\ zs.imgs = zs.before_fill
            /\ Len(zs.imgs_zfilled) = n * k
            /\ \A i \in 0..(n - 1) :
                  \A j \in (i * k)..((i + 1) * k - 1) :
                      zs.imgs_zfilled[j + 1] = zs.before_fill[i + 1]

\* C19 witness: two slices, z_dist 5 and pixel_length 2 (ratio 2.5, k = 2):
\* fill_z has returned four slices.
C19_Witness ==
    /\ zs.pc = "done"
    /\ Len(zs.before_fill) = 2
    /\ zs.z_dist = <<5>> /\ zs.pixel_length = <<2>>
    /\ Len(zs.imgs_zfilled) = 4
    /\ zs.imgs_zfilled[2] = zs.before_fill[1]
    /\ zs.imgs_zfilled[3] = zs.before_fill[2]

====
